---- MODULE Spec2Model ----
(***************************************************************************)
(* A model of awos-js: the S3-style adapter (src/src/aws.ts, AWSClient),   *)
(* the facade (src/src/aws.ts lines 483-598 and src/src/awos.ts, AWOS) and *)
(* the factory (src/src/index.ts, build).                                  *)
(*                                                                         *)
(* JavaScript values are represented as follows.                           *)
(*   - a string of characters is a sequence of code points (integers);     *)
(*     a Buffer is a sequence of bytes (integers 0..255);                  *)
(*   - option strings (header values, content types, error names) are TLA+ *)
(*     strings, and "undefined" stands for the value undefined;            *)
(*   - a metadata value is a record [t, s]: t is the JavaScript type       *)
(*     ("str" or "num") and s the characters String(v) yields;             *)
(*   - a Map or a plain object is a function from its keys to its values;  *)
(*   - a content-encoding is the sequence of its comma-separated tokens.   *)
(***************************************************************************)
EXTENDS Integers, Sequences, FiniteSets, TLC

VARIABLES
    cfg,      \* the adapter's configuration (compressType, compressLimit)
    store,    \* the backend bucket: key -> stored object
    written,  \* history: key -> the arguments of the last put that reached the backend
    call,     \* the call in flight (its position and the values it holds)
    done,     \* the last completed call, its request and its outcome
    facade,   \* the facade: the adapter selected at construction, the last forwarding
    built,    \* the last construction attempt and what it produced
    pager     \* a caller paging through listDetails / listDetailsV2

vars == <<cfg, store, written, call, done, facade, built, pager>>

----------------------------------------------------------------------------
(* Bounds of the model *)

MaxLen == 1          \* payloads have at most this many characters / bytes
KeySlack == 1        \* delMulti is tried with up to this many keys around its limit
MaxObjects == 3      \* the listed bucket holds at most this many objects

----------------------------------------------------------------------------
(* JavaScript helpers *)

\* a JavaScript string option is truthy unless undefined or empty
Truthy(s) == s \notin {"undefined", ""}

\* a content-encoding value is the sequence of its comma-separated tokens;
\* <<>> is the absent (or empty, equally falsy) value
NoEncoding == <<>>

\* String(v) on a metadata value
String(v) == [t |-> "str", s |-> v.s]

\* _.isEmpty(obj) on a plain object
isEmpty(obj) == DOMAIN obj = {}

RECURSIVE Utf8Encode(_)
\* the bytes of a string (what the SDK sends for a string Body)
Utf8Encode(str) ==
    IF str = <<>> THEN <<>>
    ELSE LET cp == Head(str)
             enc == IF cp < 128 THEN <<cp>>
                    ELSE IF cp < 2048 THEN <<192 + (cp \div 64), 128 + (cp % 64)>>
                    ELSE <<224 + (cp \div 4096), 128 + ((cp \div 64) % 64), 128 + (cp % 64)>>
         IN  enc \o Utf8Encode(Tail(str))

IsCont(b) == b >= 128 /\ b <= 191

RECURSIVE toString(_)
\* Buffer.prototype.toString(): UTF-8 decoding, an invalid byte becomes U+FFFD
toString(buf) ==
    IF buf = <<>> THEN <<>>
    ELSE LET h == Head(buf) IN
         IF h < 128 THEN <<h>> \o toString(Tail(buf))
         ELSE IF h >= 194 /\ h <= 223 /\ Len(buf) >= 2 /\ IsCont(buf[2])
              THEN <<(h - 192) * 64 + (buf[2] - 128)>> \o toString(SubSeq(buf, 3, Len(buf)))
         ELSE IF h >= 224 /\ h <= 239 /\ Len(buf) >= 3 /\ IsCont(buf[2]) /\ IsCont(buf[3])
              THEN <<(h - 224) * 4096 + (buf[2] - 128) * 64 + (buf[3] - 128)>>
                       \o toString(SubSeq(buf, 4, Len(buf)))
         ELSE <<65533>> \o toString(Tail(buf))

\* the bytes of a put payload (string | Buffer)
BytesOf(data) == IF data.kind = "string" THEN Utf8Encode(data.v) ELSE data.v

\* the payload as text
TextOf(data) == IF data.kind = "string" THEN data.v ELSE toString(data.v)

----------------------------------------------------------------------------
(* The compression helper of the shared base (client.ts is not among the   *)
(* sources; modelled from spec section 4.3: compress and decompress are    *)
(* one codec, and decompress recovers whatever compress produced).         *)

GzipMagic == <<31, 139>>

\* compress(data): a gzip member: the magic bytes, the data, a length trailer
compress(data) ==
    LET b == BytesOf(data) IN GzipMagic \o b \o <<Len(b) % 256>>

IsGzip(buf) ==
    /\ Len(buf) >= 3
    /\ SubSeq(buf, 1, 2) = GzipMagic
    /\ buf[Len(buf)] = (Len(buf) - 3) % 256

\* decompress(buf): the data of a gzip member; fails on anything else
decompress(buf) ==
    IF IsGzip(buf) THEN [ok |-> TRUE, v |-> SubSeq(buf, 3, Len(buf) - 1)]
    ELSE [ok |-> FALSE, v |-> <<>>]

\* getBucketName(key): the fixed-bucket strategy
getBucketName(key) == "bucket"

----------------------------------------------------------------------------
(* Inputs *)

Keys == {"k1", "k2"}
MetaKeys == {"x", "y"}
MetaVals == {[t |-> "str", s |-> "1"], [t |-> "str", s |-> ""], [t |-> "num", s |-> "2"]}
MetaMaps == UNION {[S -> MetaVals] : S \in SUBSET MetaKeys}
EmptyMap == [k \in {} |-> [t |-> "str", s |-> ""]]

TextChars == {97, 233}       \* 'a' and 'e acute' (two bytes in UTF-8)
BufBytes == {255}            \* a byte that is not valid UTF-8
SeqsUpTo(S, n) == UNION {[1..m -> S] : m \in 0..n}
Payloads ==
    {[kind |-> "string", v |-> s] : s \in SeqsUpTo(TextChars, MaxLen)}
        \cup {[kind |-> "buffer", v |-> b] : b \in SeqsUpTo(BufBytes, MaxLen)}

Encodings == {NoEncoding, <<"gzip">>, <<"br">>}

\* IPutObjectOptions: meta (a Map, or undefined: has = FALSE), contentType,
\* headers.contentEncoding
OptionsOf(has, m, ctype, enc) ==
    [has |-> has, m |-> m, contentType |-> ctype, contentEncoding |-> enc]
NoOptions == OptionsOf(FALSE, EmptyMap, "undefined", NoEncoding)

\* the options the data path is explored with: every metadata map over the
\* key "x", every content-encoding, a content type
PutOptions ==
    {NoOptions}
        \cup {OptionsOf(TRUE, m, "undefined", NoEncoding) :
                 m \in {q \in MetaMaps : DOMAIN q \subseteq {"x"}}}
        \cup {OptionsOf(TRUE, EmptyMap, "undefined", e) : e \in Encodings}
        \cup {OptionsOf(FALSE, EmptyMap, "image/png", NoEncoding)}

\* the configurations of the shared base: compressType is 'gzip' or unset
Configs == [compressType : {"undefined", "gzip"}, compressLimit : 0..MaxLen]

----------------------------------------------------------------------------
(* The S3 backend behind S3Client.send (an external collaborator) *)

NoObject == [exists |-> FALSE, body |-> <<>>, meta |-> EmptyMap,
             enc |-> NoEncoding, ctype |-> "undefined"]

\* failures other than not-found that any send can end with
OtherErrors == {"AccessDenied"}

\* PutObject: the object stored for a request
S3PutObject(params) ==
    [exists |-> TRUE, body |-> BytesOf(params.Body), meta |-> params.Metadata,
     enc |-> params.ContentEncoding, ctype |-> params.ContentType]

\* GetObject: the responses a send can end with. A missing key is signalled by
\* the NoSuchKey exception.
S3GetObject(st, key) ==
    {[err |-> e, obj |-> NoObject] : e \in OtherErrors}
        \cup (IF st[key].exists THEN {[err |-> "none", obj |-> st[key]]}
              ELSE {[err |-> "NoSuchKey", obj |-> NoObject]})

\* HeadObject: a HEAD response has no body, so a missing key is signalled by
\* the NotFound exception (the SDK's documented exception of HeadObjectCommand).
S3HeadObject(st, key) ==
    {[err |-> e, obj |-> NoObject] : e \in OtherErrors}
        \cup (IF st[key].exists THEN {[err |-> "none", obj |-> st[key]]}
              ELSE {[err |-> "NotFound", obj |-> NoObject]})

----------------------------------------------------------------------------
(* AWSClient._put *)

\* a variant of doCompress with a strict comparison (off by one at the threshold)
doCompressStrict(c, data) == Truthy(c.compressType) /\ Len(data.v) > c.compressLimit

\* line 151: this.compressType && data.length >= this.compressLimit
doCompress(c, data) == Truthy(c.compressType) /\ Len(data.v) >= c.compressLimit

\* lines 126-134: the Metadata object, every value coerced with String()
metaDataOf(options) == [k \in DOMAIN options.m |-> String(options.m[k])]

\* lines 136-142: the PutObjectCommandInput as first built
putParamsBase(key, data, options) ==
    [Bucket |-> getBucketName(key),
     Key |-> key,
     Metadata |-> metaDataOf(options),
     ContentType |-> IF Truthy(options.contentType) THEN options.contentType
                     ELSE "text/plain",
     Body |-> data,
     ContentEncoding |-> NoEncoding]

\* lines 151-156: the body and the content-encoding of the request
putParams(c, key, data, options) ==
    IF doCompress(c, data)
    THEN [putParamsBase(key, data, options) EXCEPT
             !.Body = [kind |-> "buffer", v |-> compress(data)],
             !.ContentEncoding = <<"gzip">>]
    ELSE IF options.contentEncoding # NoEncoding
    THEN [putParamsBase(key, data, options) EXCEPT
             !.ContentEncoding = options.contentEncoding]
    ELSE putParamsBase(key, data, options)

----------------------------------------------------------------------------
(* AWSClient.getWithMetadata, _get, _getAsBuffer *)

\* a variant of startsWithGzip that never recognises the marker
startsWithGzipNever(enc) == FALSE

\* a variant of startsWithGzip that takes any marker for the codec's
startsWithGzipAny(enc) == Len(enc) >= 1

\* line 470: awsResult.ContentEncoding?.startsWith('gzip')
startsWithGzip(enc) == Len(enc) >= 1 /\ Head(enc) = "gzip"

\* lines 451-456: the requested keys whose stored value is truthy
pickMeta(metadata, metaKeys) ==
    [k \in {q \in metaKeys : q \in DOMAIN metadata /\ Truthy(metadata[q].s)}
        |-> metadata[k]]

\* lines 449-479: the outcome for a response of GetObject; st is "value", "null"
\* or "throw", dec tells whether this.decompress was called (line 471)
getWithMetadata(resp, metaKeys) ==
    LET none == [content |-> <<>>, meta |-> EmptyMap,
                 headers |-> [ctype |-> "undefined", length |-> 0]]
    IN
    IF resp.err = "NoSuchKey"
    THEN [st |-> "null", err |-> "none", r |-> none, dec |-> FALSE]
    ELSE IF resp.err # "none"
    THEN [st |-> "throw", err |-> resp.err, r |-> none, dec |-> FALSE]
    ELSE LET o == resp.obj
             z == decompress(o.body)
         IN  IF startsWithGzip(o.enc) /\ ~z.ok
             THEN [st |-> "throw", err |-> "Z_DATA_ERROR", r |-> none, dec |-> TRUE]
             ELSE [st |-> "value", err |-> "none",
                   r |-> [content |-> IF startsWithGzip(o.enc) THEN z.v ELSE o.body,
                          meta |-> pickMeta(o.meta, metaKeys),
                          headers |-> [ctype |-> o.ctype, length |-> Len(o.body)]],
                   dec |-> startsWithGzip(o.enc)]

\* lines 91-104: content converted with toString()
_get(resp, metaKeys) ==
    LET r == getWithMetadata(resp, metaKeys) IN
    IF r.st = "value" THEN [r EXCEPT !.r.content = toString(r.r.content)] ELSE r

\* lines 106-117
_getAsBuffer(resp, metaKeys) == getWithMetadata(resp, metaKeys)

----------------------------------------------------------------------------
(* AWSClient._head and _del *)

HeadOptions == {"undefined", "false", "true"}   \* options / withStandardHeaders

\* lines 39-45, 252-263: the standard headers of a HeadObject response, under
\* their external names, each converted with String()
standardHeaders(o) ==
    [h \in {"content-type", "content-length", "accept-ranges", "etag", "last-modified"} |->
        [t |-> "str",
         s |-> CASE h = "content-type" -> o.ctype
                 [] h = "content-length" -> ToString(Len(o.body))
                 [] h = "accept-ranges" -> "bytes"
                 [] h = "etag" -> "etag"
                 [] OTHER -> ToString(0)]]

\* lines 243-270: the outcome for a response of HeadObject
_head(resp, options) ==
    IF resp.err = "NoSuchKey" THEN [st |-> "null", err |-> "none", r |-> EmptyMap]
    ELSE IF resp.err # "none" THEN [st |-> "throw", err |-> resp.err, r |-> EmptyMap]
    ELSE LET o == resp.obj
             std == standardHeaders(o)
         IN  [st |-> "value", err |-> "none",
              r |-> IF options = "true"
                    THEN [k \in DOMAIN o.meta \cup DOMAIN std |->
                             IF k \in DOMAIN std THEN std[k] ELSE o.meta[k]]
                    ELSE o.meta]

----------------------------------------------------------------------------
(* The state machine of the data path: put, get, getAsBuffer, head, del *)

Idle == [op |-> "idle"]
NoWrite == [has |-> FALSE, data |-> [kind |-> "string", v |-> <<>>],
            options |-> NoOptions]
NoCall == [op |-> "none"]

PutKeys == {"k1"}            \* "k2" is never written by put: the absent key

Init ==
    /\ cfg \in Configs
    /\ store = [k \in Keys |-> NoObject]
    /\ written = [k \in Keys |-> NoWrite]
    /\ call = Idle
    /\ done = NoCall
    /\ facade = [op |-> "none"]
    /\ built = [op |-> "none"]
    /\ pager = [op |-> "none"]

\* _put, lines 124-150: the request is built from the arguments
PutCall(k, data, options) ==
    /\ call = Idle
    /\ call' = [op |-> "put", pc |-> "encode", key |-> k, data |-> data,
                options |-> options, params |-> putParamsBase(k, data, options),
                events |-> <<>>]
    /\ done' = NoCall
    /\ UNCHANGED <<cfg, store, written, facade, built, pager>>

\* _put, lines 151-156: the payload is compressed (awaited) or the caller's
\* content-encoding is passed through
PutEncode ==
    /\ call.op = "put" /\ call.pc = "encode"
    /\ call' = [call EXCEPT
                   !.pc = "send",
                   !.params = putParams(cfg, call.key, call.data, call.options),
                   !.events = IF doCompress(cfg, call.data) THEN <<"compress">> ELSE <<>>]
    /\ UNCHANGED <<cfg, store, written, done, facade, built, pager>>

\* _put, line 157: the request is handed to the backend, which stores the object
\* or fails
PutSend ==
    /\ call.op = "put" /\ call.pc = "send"
    /\ \E err \in {"none"} \cup OtherErrors :
          /\ done' = [op |-> "put", key |-> call.key, data |-> call.data,
                      options |-> call.options, req |-> call.params,
                      events |-> Append(call.events, "send"),
                      out |-> [st |-> IF err = "none" THEN "value" ELSE "throw",
                               err |-> err]]
          /\ IF err = "none"
             THEN /\ store' = [store EXCEPT ![call.key] = S3PutObject(call.params)]
                  /\ written' = [written EXCEPT ![call.key] =
                                    [has |-> TRUE, data |-> call.data,
                                     options |-> call.options]]
             ELSE UNCHANGED <<store, written>>
    /\ call' = Idle
    /\ UNCHANGED <<cfg, facade, built, pager>>

\* _get / _getAsBuffer: the call starts
GetCall(op, k, metaKeys) ==
    /\ call = Idle
    /\ call' = [op |-> op, pc |-> "send", key |-> k, metaKeys |-> metaKeys]
    /\ done' = NoCall
    /\ UNCHANGED <<cfg, store, written, facade, built, pager>>

\* getWithMetadata, line 450: the request is handed to the backend and answered
GetSend ==
    /\ call.op \in {"get", "getAsBuffer"} /\ call.pc = "send"
    /\ \E resp \in S3GetObject(store, call.key) :
          call' = [op |-> call.op, pc |-> "receive", key |-> call.key,
                   metaKeys |-> call.metaKeys, resp |-> resp]
    /\ UNCHANGED <<cfg, store, written, done, facade, built, pager>>

\* getWithMetadata, lines 451-479, and _get / _getAsBuffer: the response is
\* decoded and the call returns
GetReturn ==
    /\ call.op \in {"get", "getAsBuffer"} /\ call.pc = "receive"
    /\ done' = [op |-> call.op, key |-> call.key, metaKeys |-> call.metaKeys,
                signal |-> call.resp.err, stored |-> call.resp.obj,
                out |-> IF call.op = "get" THEN _get(call.resp, call.metaKeys)
                        ELSE _getAsBuffer(call.resp, call.metaKeys)]
    /\ call' = Idle
    /\ UNCHANGED <<cfg, store, written, facade, built, pager>>

\* _head, lines 234-271
Head_(k, options) ==
    /\ call = Idle
    /\ \E resp \in S3HeadObject(store, k) :
          done' = [op |-> "head", key |-> k, options |-> options,
                   signal |-> resp.err, stored |-> resp.obj,
                   out |-> _head(resp, options)]
    /\ UNCHANGED <<cfg, store, written, call, facade, built, pager>>

\* _del, lines 208-215: the backend deletes the key (present or not) or fails
Del(k) ==
    /\ call = Idle
    /\ \E err \in {"none"} \cup OtherErrors :
          /\ done' = [op |-> "del", key |-> k,
                      out |-> [st |-> IF err = "none" THEN "value" ELSE "throw",
                               err |-> err]]
          /\ IF err = "none"
             THEN /\ store' = [store EXCEPT ![k] = NoObject]
                  /\ written' = [written EXCEPT ![k] = NoWrite]
             ELSE UNCHANGED <<store, written>>
    /\ UNCHANGED <<cfg, call, facade, built, pager>>

Next ==
    \/ \E k \in PutKeys, data \in Payloads, options \in PutOptions : PutCall(k, data, options)
    \/ PutEncode
    \/ PutSend
    \/ \E op \in {"get", "getAsBuffer"}, k \in Keys, metaKeys \in SUBSET MetaKeys :
          GetCall(op, k, metaKeys)
    \/ GetSend
    \/ GetReturn
    \/ \E k \in Keys, options \in HeadOptions : Head_(k, options)
    \/ \E k \in Keys : Del(k)

Spec == Init /\ [][Next]_vars

----------------------------------------------------------------------------
(* Claims about the data path *)

IsRead(d) == d.op \in {"get", "getAsBuffer", "head"}
NotFoundSignalled(d) == d.signal \in {"NoSuchKey", "NotFound"}

\* C1: get, getAsBuffer and head resolve to null if and only if the backend
\* signalled that the object does not exist, and a backend failure other than
\* not-found is rethrown unchanged.
C1_NullIffNotFound ==
    IsRead(done) =>
        /\ (done.out.st = "null") <=> NotFoundSignalled(done)
        /\ done.signal \in OtherErrors =>
              (done.out.st = "throw" /\ done.out.err = done.signal)

\* the payload-only options of the round trip: put(key, P, {meta: M})
MetaOnly(options) ==
    options.has /\ options.contentType = "undefined" /\ options.contentEncoding = NoEncoding

\* C4: put(key, P, {meta: M}) followed by get(key, keys(M)) with no write in
\* between returns P as text and a metadata map equal to M.
C4_RoundTrip ==
    (/\ done.op = "get"
     /\ done.signal = "none"
     /\ written[done.key].has
     /\ MetaOnly(written[done.key].options)
     /\ done.metaKeys = DOMAIN written[done.key].options.m)
    => (/\ done.out.st = "value"
        /\ done.out.r.content = TextOf(written[done.key].data)
        /\ done.out.r.meta = written[done.key].options.m)

\* the case of the compression claims: a codec is configured and the payload
\* is at least as long as the threshold
AtThreshold(data) == cfg.compressType = "gzip" /\ Len(data.v) >= cfg.compressLimit

\* C5: with a codec and a threshold configured and a payload at least as long
\* as the threshold, get returns the payload as text and getAsBuffer its bytes,
\* although the backend holds the compressed bytes; put compresses before it
\* sends.
C5_CompressionTransparent ==
    /\ (/\ done.op \in {"get", "getAsBuffer"}
        /\ done.signal = "none"
        /\ written[done.key].has
        /\ AtThreshold(written[done.key].data))
       => (/\ done.out.st = "value"
           /\ done.stored.body = compress(written[done.key].data)
           /\ done.stored.body # BytesOf(written[done.key].data)
           /\ done.out.r.content =
                 IF done.op = "get" THEN TextOf(written[done.key].data)
                 ELSE BytesOf(written[done.key].data))
    /\ (done.op = "put" /\ AtThreshold(done.data))
       => (/\ done.events = <<"compress", "send">>
           /\ done.req.Body.v = compress(done.data))

C5_Witness ==
    /\ done.op = "getAsBuffer"
    /\ done.signal = "none"
    /\ written[done.key].has
    /\ AtThreshold(written[done.key].data)
    /\ written[done.key].data = [kind |-> "string", v |-> <<233>>]
    /\ done.out.r.content = <<195, 169>>

\* C6: put compresses exactly when a codec is configured and the payload is at
\* least as long as the threshold; a compressed request carries the marker
\* gzip whatever the caller supplied, an uncompressed one the unmodified body
\* and the caller's content-encoding, if any.
C6_CompressDecision ==
    done.op = "put" =>
        /\ ("compress" \in {done.events[i] : i \in DOMAIN done.events})
              <=> AtThreshold(done.data)
        /\ AtThreshold(done.data) =>
              /\ done.req.ContentEncoding = <<"gzip">>
              /\ done.req.Body = [kind |-> "buffer", v |-> compress(done.data)]
        /\ ~AtThreshold(done.data) =>
              /\ done.req.Body = done.data
              /\ done.req.ContentEncoding = done.options.contentEncoding

C6_Witness ==
    /\ done.op = "put"
    /\ AtThreshold(done.data)
    /\ Len(done.data.v) = cfg.compressLimit
    /\ done.options.contentEncoding = <<"br">>
    /\ done.req.ContentEncoding = <<"gzip">>

----------------------------------------------------------------------------
(* Reading what another client wrote: two AWSClient instances on one       *)
(* bucket, each with its own compressType and compressLimit. cfg is the    *)
(* configuration of the reading instance.                                  *)

\* _put, lines 119-162, called on an instance configured with wc: the request
\* it builds is sent and the backend stores the object or fails
PutByPeer(wc, k, data, options) ==
    /\ call = Idle
    /\ \E err \in {"none"} \cup OtherErrors :
          IF err = "none"
          THEN /\ store' = [store EXCEPT ![k] =
                               S3PutObject(putParams(wc, k, data, options))]
               /\ written' = [written EXCEPT ![k] =
                                 [has |-> TRUE, data |-> data, options |-> options]]
          ELSE UNCHANGED <<store, written>>
    /\ done' = NoCall
    /\ UNCHANGED <<cfg, call, facade, built, pager>>

\* the options the read decision is explored with: none, and every
\* content-encoding a caller can supply
ReadOptions ==
    {NoOptions} \cup {OptionsOf(TRUE, EmptyMap, "undefined", e) : e \in Encodings}

ReadNext ==
    \/ \E wc \in Configs, k \in PutKeys, data \in Payloads, options \in ReadOptions :
          PutByPeer(wc, k, data, options)
    \/ \E op \in {"get", "getAsBuffer"}, k \in Keys : GetCall(op, k, {})
    \/ GetSend
    \/ GetReturn

ReadSpec == Init /\ [][ReadNext]_vars

\* the stored marker names the codec: its first token is gzip
SignalsCodec(enc) == enc # NoEncoding /\ enc[1] = "gzip"

\* bytes as the operation hands them to its caller: get as text, getAsBuffer
\* as they are
AsReturned(op, bytes) == IF op = "get" THEN toString(bytes) ELSE bytes

\* the object under k holds the very bytes the caller of put handed over
StoredUncompressed(k) == written[k].has /\ store[k].body = BytesOf(written[k].data)

\* a get or getAsBuffer that fetched an object
Fetched == done.op \in {"get", "getAsBuffer"} /\ done.signal = "none"

\* the read decision: decompress is called exactly when the stored marker
\* names the codec, whatever the length of the body and the reader's
\* configuration; its result is what is returned, and without a call the
\* fetched bytes are returned as they are
MarkerDecides ==
    Fetched =>
        LET z == decompress(done.stored.body) IN
        /\ done.out.dec <=> SignalsCodec(done.stored.enc)
        /\ ~done.out.dec =>
              /\ done.out.st = "value"
              /\ done.out.r.content = AsReturned(done.op, done.stored.body)
        /\ (done.out.dec /\ z.ok) =>
              /\ done.out.st = "value"
              /\ done.out.r.content = AsReturned(done.op, z.v)
        /\ (done.out.dec /\ ~z.ok) => done.out.st = "throw"

\* C11 as stated: on get and getAsBuffer the fetched bytes are passed through
\* decompress exactly when the stored marker signals the codec, whatever the
\* payload length and the reader's threshold, and are returned unmodified
\* otherwise, so an object stored uncompressed is always returned byte for
\* byte as stored.
C11_StoredUncompressedReturned ==
    /\ MarkerDecides
    /\ (Fetched /\ StoredUncompressed(done.key)) =>
          /\ done.out.st = "value"
          /\ done.out.r.content = AsReturned(done.op, done.stored.body)

\* C11 as amended: on get and getAsBuffer the fetched bytes are passed through
\* decompress exactly when the stored marker signals the codec, whatever the
\* payload length and the reader's threshold, and are returned unmodified
\* otherwise, so an object stored without the codec's marker is always
\* returned byte for byte as stored.
C11_MarkerDecides ==
    /\ MarkerDecides
    /\ (Fetched /\ ~SignalsCodec(done.stored.enc)) =>
          /\ done.out.st = "value"
          /\ done.out.r.content = AsReturned(done.op, done.stored.body)

\* a reader whose own codec and threshold would have compressed the payload
\* fetches it stored without a marker and returns its bytes
C11_Witness ==
    /\ done.op = "getAsBuffer"
    /\ done.signal = "none"
    /\ cfg.compressType = "gzip"
    /\ Len(done.stored.body) >= cfg.compressLimit
    /\ Len(done.stored.body) >= 1
    /\ StoredUncompressed(done.key)
    /\ done.stored.enc = NoEncoding
    /\ ~done.out.dec
    /\ done.out.r.content = done.stored.body

----------------------------------------------------------------------------
(* AWSClient._copy, and async-retry as _copy uses it *)

\* line 203: retries, the number of re-sends async-retry allows after the
\* first attempt
Retries == 3

\* a variant of copyParams that always asks for REPLACE
copyParamsReplace(key, source, options) ==
    [CopySource |-> <<getBucketName(source), source>>,
     Bucket |-> getBucketName(key),
     Key |-> key,
     Metadata |-> metaDataOf(options),
     ContentType |-> IF Truthy(options.contentType) THEN options.contentType
                     ELSE "text/plain",
     MetadataDirective |-> "REPLACE",
     ContentEncoding |-> options.contentEncoding]

\* lines 171-200: the CopyObjectCommandInput handed to send
copyParams(key, source, options) ==
    [CopySource |-> <<getBucketName(source), source>>,
     Bucket |-> getBucketName(key),
     Key |-> key,
     Metadata |-> metaDataOf(options),
     ContentType |-> IF Truthy(options.contentType) THEN options.contentType
                     ELSE "text/plain",
     MetadataDirective |-> IF isEmpty(metaDataOf(options)) THEN "COPY" ELSE "REPLACE",
     ContentEncoding |-> options.contentEncoding]

\* a variant of shouldRetry that counts the first attempt among the retries
shouldRetryTotal(nErrors) == nErrors < Retries

\* lines 202-205, retry(fn, {retries: 3}): after the n-th failure async-retry
\* sends again while one of its `retries` timeouts is left
shouldRetry(nErrors) == nErrors <= Retries

Count(errors, e) == Cardinality({i \in DOMAIN errors : errors[i] = e})

RECURSIVE mainErrorFrom(_, _, _, _)
\* the loop of RetryOperation.mainError: the running winner is replaced by
\* every error whose count so far is not below the winner's
mainErrorFrom(errors, i, winner, winnerCount) ==
    IF i > Len(errors) THEN winner
    ELSE LET c == Count(SubSeq(errors, 1, i), errors[i]) IN
         IF c >= winnerCount THEN mainErrorFrom(errors, i + 1, errors[i], c)
         ELSE mainErrorFrom(errors, i + 1, winner, winnerCount)

\* lines 202-205: the error async-retry rejects with when no retry is left
mainError(errors) == mainErrorFrom(errors, 1, "none", 0)

\* failures a CopyObject send can end with, whatever the bucket holds
CopyErrors == {"AccessDenied", "RequestTimeout"}

\* CopyObject: the outcomes of one send. With the directive COPY the
\* destination takes the source's metadata and headers, with REPLACE those of
\* the request; a missing source fails with NoSuchKey, a copy of an object onto
\* itself without REPLACE with InvalidRequest.
S3CopyObject(st, params) ==
    LET src == st[params.CopySource[2]] IN
    {[err |-> e, obj |-> NoObject] : e \in CopyErrors}
        \cup (IF ~src.exists THEN {[err |-> "NoSuchKey", obj |-> NoObject]}
              ELSE IF params.MetadataDirective = "COPY"
              THEN (IF params.CopySource[2] = params.Key
                    THEN {[err |-> "InvalidRequest", obj |-> NoObject]}
                    ELSE {[err |-> "none", obj |-> src]})
              ELSE {[err |-> "none",
                     obj |-> [src EXCEPT !.meta = params.Metadata,
                                         !.ctype = params.ContentType,
                                         !.enc = params.ContentEncoding]]})

\* the inputs the copy path is explored with
CopyPutOptions ==
    {NoOptions,
     OptionsOf(TRUE, [k \in {"x"} |-> [t |-> "str", s |-> "1"]], "undefined", NoEncoding),
     OptionsOf(TRUE, [k \in {"x", "y"} |-> IF k = "x" THEN [t |-> "str", s |-> ""]
                                           ELSE [t |-> "num", s |-> "2"]],
               "image/png", NoEncoding)}
CopyOptions ==
    {NoOptions,
     OptionsOf(TRUE, EmptyMap, "undefined", NoEncoding),
     OptionsOf(TRUE, [k \in {"y"} |-> [t |-> "num", s |-> "2"]], "undefined", NoEncoding),
     OptionsOf(TRUE, [k \in {"x", "y"} |-> IF k = "x" THEN [t |-> "str", s |-> ""]
                                           ELSE [t |-> "str", s |-> "1"]],
               "undefined", NoEncoding),
     OptionsOf(FALSE, EmptyMap, "image/png", <<"br">>)}

CopyInit ==
    /\ cfg = [compressType |-> "undefined", compressLimit |-> 0]
    /\ store = [k \in Keys |-> NoObject]
    /\ written = [k \in Keys |-> NoWrite]
    /\ call = Idle
    /\ done = NoCall
    /\ facade = [op |-> "none"]
    /\ built = [op |-> "none"]
    /\ pager = [op |-> "none"]

\* _copy, lines 169-200: the request is built from the arguments
CopyCall(k, source, options) ==
    /\ call = Idle
    /\ call' = [op |-> "copy", key |-> k, source |-> source, options |-> options,
                params |-> copyParams(k, source, options), errors |-> <<>>]
    /\ done' = NoCall
    /\ UNCHANGED <<cfg, store, written, facade, built, pager>>

\* lines 202-205: one attempt of async-retry: the request is sent; a success
\* resolves the call, a failure is recorded and either retried or rejected
CopyAttempt ==
    /\ call.op = "copy"
    /\ \E resp \in S3CopyObject(store, call.params) :
          LET errors == IF resp.err = "none" THEN call.errors
                        ELSE Append(call.errors, resp.err)
              finished == [op |-> "copy", key |-> call.key, source |-> call.source,
                           options |-> call.options, req |-> call.params,
                           sends |-> Len(call.errors) + 1, errors |-> errors,
                           srcObj |-> store[call.source],
                           out |-> [st |-> "value", err |-> "none"]]
          IN  IF resp.err = "none"
              THEN /\ store' = [store EXCEPT ![call.key] = resp.obj]
                   /\ written' = [written EXCEPT ![call.key] = NoWrite]
                   /\ done' = finished
                   /\ call' = Idle
              ELSE IF shouldRetry(Len(errors))
              THEN /\ call' = [call EXCEPT !.errors = errors]
                   /\ UNCHANGED <<store, written, done>>
              ELSE /\ done' = [finished EXCEPT
                                  !.out = [st |-> "throw", err |-> mainError(errors)]]
                   /\ call' = Idle
                   /\ UNCHANGED <<store, written>>
    /\ UNCHANGED <<cfg, facade, built, pager>>

CopyNext ==
    \/ \E k \in Keys, options \in CopyPutOptions :
          PutCall(k, [kind |-> "string", v |-> <<>>], options)
    \/ PutEncode
    \/ PutSend
    \/ \E k \in Keys, source \in Keys, options \in CopyOptions : CopyCall(k, source, options)
    \/ CopyAttempt
    \/ \E k \in Keys : Del(k)

CopySpec == CopyInit /\ [][CopyNext]_vars

----------------------------------------------------------------------------
(* Claims about copy *)

LastIndex(errors, e) ==
    IF Count(errors, e) = 0 THEN 0
    ELSE CHOOSE i \in DOMAIN errors :
            errors[i] = e /\ \A j \in DOMAIN errors : errors[j] = e => j <= i

\* e is the most frequent of the errors, the one seen last among equally
\* frequent ones
MostFrequentLatest(errors, e) ==
    /\ Count(errors, e) > 0
    /\ \A i \in DOMAIN errors :
          \/ Count(errors, errors[i]) < Count(errors, e)
          \/ (Count(errors, errors[i]) = Count(errors, e)
                 /\ LastIndex(errors, errors[i]) <= LastIndex(errors, e))

\* C3 as stated: one copy call sends at most 3 times and, once the 3rd
\* attempt has failed, rejects with that failure.
C3_ThreeSends ==
    done.op = "copy" =>
        /\ done.sends <= 3
        /\ done.out.st = "throw" =>
              (done.sends = 3 /\ done.out.err = done.errors[Len(done.errors)])

\* C3 as amended: one copy call sends at most 4 times (the first attempt and
\* 3 retries); it stops at the first send that succeeds, sends again after any
\* failure of the first 3 sends, and once the 4th send has failed it rejects
\* with the most frequent of the 4 failures (the latest of equally frequent
\* ones).
C3_FourSends ==
    /\ call.op = "copy" => Len(call.errors) <= 3
    /\ done.op = "copy" =>
          /\ done.sends <= 4
          /\ done.out.st = "value" => Len(done.errors) = done.sends - 1
          /\ done.out.st = "throw" =>
                /\ done.sends = 4
                /\ Len(done.errors) = 4
                /\ MostFrequentLatest(done.errors, done.out.err)

C3_Witness ==
    /\ done.op = "copy"
    /\ done.out.st = "throw"
    /\ done.sends = 4
    /\ done.errors = <<"AccessDenied", "AccessDenied", "AccessDenied", "RequestTimeout">>
    /\ done.out.err = "AccessDenied"

\* C7: copy asks for REPLACE exactly when the caller supplies a non-empty
\* metadata map and for COPY otherwise; after a COPY the destination's
\* metadata is the source's, after a REPLACE it is the supplied map with its
\* values coerced to strings.
C7_MetadataDirective ==
    done.op = "copy" =>
        LET supplied == done.options.has /\ DOMAIN done.options.m # {} IN
        /\ done.req.MetadataDirective = (IF supplied THEN "REPLACE" ELSE "COPY")
        /\ (done.out.st = "value" /\ ~supplied) =>
              store[done.key].meta = done.srcObj.meta
        /\ (done.out.st = "value" /\ supplied) =>
              /\ DOMAIN store[done.key].meta = DOMAIN done.options.m
              /\ \A k \in DOMAIN done.options.m :
                    store[done.key].meta[k] = [t |-> "str", s |-> done.options.m[k].s]

C7_Witness ==
    /\ done.op = "copy"
    /\ done.out.st = "value"
    /\ done.options.has
    /\ done.options.m = EmptyMap
    /\ done.req.MetadataDirective = "COPY"
    /\ DOMAIN done.srcObj.meta = {"x"}
    /\ store[done.key].meta = done.srcObj.meta

----------------------------------------------------------------------------
(* AWSClient._delMulti *)

\* the key lists delMulti is tried with: n keys, alternating
KeyList(n) == [i \in 1..n |-> IF i % 2 = 1 THEN "k1" ELSE "k2"]

\* DeleteObjects: the responses one send can end with: a failure, no Deleted
\* element, or Deleted entries for some of the keys, an entry possibly
\* without its Key
S3DeleteObjects(params) ==
    LET keys == [i \in DOMAIN params.Delete.Objects |-> params.Delete.Objects[i].Key]
        n == Len(keys)
    IN  {[err |-> e, has |-> FALSE, Deleted |-> <<>>] : e \in OtherErrors}
            \cup {[err |-> "none", has |-> FALSE, Deleted |-> <<>>],
                  [err |-> "none", has |-> TRUE, Deleted |-> keys],
                  [err |-> "none", has |-> TRUE,
                   Deleted |-> [i \in 1..n |-> IF i = 1 THEN "undefined" ELSE keys[i]]]}

\* lines 222-229: the DeleteObjectsCommand input
delMultiParams(keys) ==
    [Bucket |-> getBucketName(IF keys = <<>> THEN "undefined" ELSE keys[1]),
     Delete |-> [Objects |-> [i \in DOMAIN keys |-> [Key |-> keys[i]]], Quiet |-> TRUE]]

\* line 231: filter((e) => !!e.Key).map((e) => e.Key)
filterKeys(deleted) == SelectSeq(deleted, Truthy)

\* lines 230-231: the outcome for a response of DeleteObjects
_delMulti(resp) ==
    IF resp.err # "none" THEN [st |-> "throw", v |-> resp.err]
    ELSE IF resp.has THEN [st |-> "value", v |-> filterKeys(resp.Deleted)]
    ELSE [st |-> "value", v |-> <<>>]

----------------------------------------------------------------------------
(* The facade AWOS (src/src/aws.ts, lines 504-598) *)

\* line 554: the ceiling on the keys of one delMulti
DelMultiLimit == 1000

FacadeOps ==
    {"get", "getAsBuffer", "put", "copy", "del", "delMulti", "head", "signatureUrl",
     "listObject", "listDetails", "listObjectV2", "listDetailsV2"}

\* the parameters of each operation of the public surface (IAWOS)
Arity(op) ==
    CASE op \in {"put", "copy"} -> 3
      [] op \in {"del", "delMulti"} -> 1
      [] OTHER -> 2

\* the arguments a caller passes: a key, then objects ("undefined" when left out)
FacadeArgs(op) ==
    CASE op \in {"put", "copy"} -> {<<"k1", a, o>> : a \in {"a"}, o \in {"undefined", "o1", "o2"}}
      [] op = "del" -> {<<"k1">>, <<"k2">>}
      [] op = "delMulti" ->
            {<<KeyList(n)>> : n \in {0, 1, 2}
                 \cup ((DelMultiLimit - KeySlack)..(DelMultiLimit + KeySlack))}
      [] OTHER -> {<<"k1", o>> : o \in {"undefined", "o1", "o2"}}

\* IOptions of the constructor: type, ossOptions, awsOptions (given or not)
FacadeOptions ==
    [type : {"undefined", "oss", "aws", "s3"}, ossOptions : BOOLEAN, awsOptions : BOOLEAN]

\* lines 507-517: the adapter the constructor selects, or the error it throws
selectClient(options) ==
    IF ~Truthy(options.type) THEN [client |-> "none", err |-> "options.type is required!"]
    ELSE IF options.type = "oss" /\ options.ossOptions THEN [client |-> "oss", err |-> "none"]
    ELSE IF options.type = "aws" /\ options.awsOptions THEN [client |-> "aws", err |-> "none"]
    ELSE [client |-> "none", err |-> "invalid options!"]

\* a variant of delMultiRejects that also refuses a list of exactly the limit
delMultiRejectsAtLimit(keys) == Len(keys) >= DelMultiLimit

\* line 554: keys.length > 1000
delMultiRejects(keys) == Len(keys) > DelMultiLimit

\* lines 519-597: the arguments each method hands to this.client's method of
\* the same name
forwardArgs(op, args) ==
    CASE op \in {"get", "getAsBuffer"} ->
            <<args[1], IF args[2] = "undefined" THEN "[]" ELSE args[2]>>
      [] op \in {"put", "copy"} -> <<args[1], args[2], args[3]>>
      [] op \in {"del", "delMulti", "head"} -> <<args[1]>>
      [] OTHER -> <<args[1], args[2]>>

\* what the adapter's method receives: a parameter not passed is undefined
received(op, passed) ==
    [i \in 1..Arity(op) |-> IF i <= Len(passed) THEN passed[i] ELSE "undefined"]

\* the outcomes of an adapter's method (whatever the adapter): a value, null
\* or a failure
AdapterResults ==
    [st : {"value"}, v : {"r1", "r2"}] \cup {[st |-> "null", v |-> "null"]}
        \cup [st : {"throw"}, v : OtherErrors]

NoForward == [op |-> "none", args |-> <<>>]

FacadeInit ==
    /\ cfg = [compressType |-> "undefined", compressLimit |-> 0]
    /\ store = [k \in Keys |-> NoObject]
    /\ written = [k \in Keys |-> NoWrite]
    /\ call = Idle
    /\ done = NoCall
    /\ facade = [client |-> "none", err |-> "none", op |-> "none"]
    /\ built = [op |-> "none"]
    /\ pager = [op |-> "none"]

\* new AWOS(options), lines 507-517
NewAWOS(options) ==
    /\ facade.client = "none"
    /\ facade' = [client |-> selectClient(options).client,
                  err |-> selectClient(options).err, op |-> "new"]
    /\ UNCHANGED <<cfg, store, written, call, done, built, pager>>

\* a method of the facade other than delMulti, lines 519-597: the call is
\* forwarded and the adapter's outcome returned
FacadeCall(op, args) ==
    /\ facade.client # "none"
    /\ op # "delMulti"
    /\ \E r \in AdapterResults :
          facade' = [client |-> facade.client, err |-> "none", op |-> op, args |-> args,
                     fwd |-> [op |-> op, args |-> received(op, forwardArgs(op, args))],
                     requests |-> 1, adapterOut |-> r, out |-> r]
    /\ UNCHANGED <<cfg, store, written, call, done, built, pager>>

\* delMulti, lines 553-558, with the adapter's _delMulti behind it
FacadeDelMulti(args) ==
    /\ facade.client # "none"
    /\ IF delMultiRejects(args[1])
       THEN facade' = [client |-> facade.client, err |-> "none", op |-> "delMulti",
                       args |-> args, fwd |-> NoForward, requests |-> 0,
                       adapterOut |-> [st |-> "none", v |-> <<>>],
                       out |-> [st |-> "throw", v |-> "Cannot delete more than 1000 keys"]]
       ELSE \E resp \in S3DeleteObjects(delMultiParams(forwardArgs("delMulti", args)[1])) :
               facade' = [client |-> facade.client, err |-> "none", op |-> "delMulti",
                          args |-> args,
                          fwd |-> [op |-> "delMulti",
                                   args |-> received("delMulti",
                                                     forwardArgs("delMulti", args))],
                          requests |-> 1, adapterOut |-> _delMulti(resp),
                          out |-> _delMulti(resp)]
    /\ UNCHANGED <<cfg, store, written, call, done, built, pager>>

FacadeNext ==
    \/ \E options \in FacadeOptions : NewAWOS(options)
    \/ \E op \in FacadeOps \ {"delMulti"} : \E args \in FacadeArgs(op) : FacadeCall(op, args)
    \/ \E args \in FacadeArgs("delMulti") : FacadeDelMulti(args)

FacadeSpec == FacadeInit /\ [][FacadeNext]_vars

----------------------------------------------------------------------------
(* Claims about the facade *)

IsForwarding == facade.op \in FacadeOps

\* C2: delMulti rejects, with no request handed to the backend, when given
\* more than 1000 keys; with 1000 keys or fewer it forwards the keys to the
\* adapter and resolves with the adapter's result.
C2_DelMultiLimit ==
    facade.op = "delMulti" =>
        /\ Len(facade.args[1]) > 1000 =>
              (facade.out.st = "throw" /\ facade.requests = 0 /\ facade.fwd = NoForward)
        /\ Len(facade.args[1]) <= 1000 =>
              /\ facade.fwd = [op |-> "delMulti", args |-> facade.args]
              /\ facade.requests = 1
              /\ facade.out = facade.adapterOut
              /\ facade.out.st = "throw" => facade.out.v \in OtherErrors

C2_Witness ==
    /\ facade.op = "delMulti"
    /\ Len(facade.args[1]) = 1000
    /\ facade.requests = 1
    /\ facade.out.st = "value"
    /\ Len(facade.out.v) = 999

\* the arguments as the public surface defines them: metaKeys defaults to []
withDefaults(op, args) ==
    IF op \in {"get", "getAsBuffer"} /\ args[2] = "undefined"
    THEN <<args[1], "[]">> ELSE args

\* C9: every public operation of the facade calls the adapter's operation of
\* the same name with exactly the arguments the caller passed, every options
\* argument included, and returns the adapter's result unchanged.
C9_Delegation ==
    (IsForwarding /\ facade.fwd # NoForward) =>
        /\ facade.fwd.op = facade.op
        /\ facade.fwd.args = withDefaults(facade.op, facade.args)
        /\ facade.out = facade.adapterOut

----------------------------------------------------------------------------
(* Construction: AWSClient's constructor and build (src/src/index.ts) *)

\* the option bag of build: storageType and the fields the constructors test
BuildOptions ==
    [storageType : {"undefined", "oss", "aws", "s3", "gcs"},
     s3ForcePathStyle : {"undefined", "false", "true"},
     endpoint : {"undefined", "", "http://e"},
     region : {"undefined", "", "r"}]

NoInstance == [ok |-> FALSE, err |-> "none", kind |-> "none", handle |-> FALSE,
               endpoint |-> "undefined", region |-> "undefined", forcePathStyle |-> FALSE]

\* aws.ts lines 56-89: new AWSClient(options): the adapter instance with the
\* configuration of its S3Client, or the assertion that failed
newAWSClient(options) ==
    IF options.s3ForcePathStyle = "true"
    THEN IF ~Truthy(options.endpoint)
         THEN [NoInstance EXCEPT
                  !.err = "options.endpoint is required when options.s3ForcePathStyle = true"]
         ELSE [ok |-> TRUE, err |-> "none", kind |-> "aws", handle |-> TRUE,
               endpoint |-> options.endpoint,
               region |-> IF Truthy(options.region) THEN options.region ELSE "cn-north-1",
               forcePathStyle |-> TRUE]
    ELSE IF ~Truthy(options.region)
         THEN [NoInstance EXCEPT
                  !.err = "options.region is required when options.s3ForcePathStyle = false"]
         ELSE [ok |-> TRUE, err |-> "none", kind |-> "aws", handle |-> TRUE,
               endpoint |-> IF Truthy(options.endpoint) THEN options.endpoint
                            ELSE "undefined",
               region |-> options.region, forcePathStyle |-> FALSE]

\* new OSSClient(options): oss.ts is not among the sources; modelled from spec
\* section 4.1, which states the validation for every backend
newOSSClient(options) ==
    IF options.s3ForcePathStyle = "true" /\ ~Truthy(options.endpoint)
    THEN [NoInstance EXCEPT !.err = "endpoint is required"]
    ELSE IF options.s3ForcePathStyle # "true" /\ ~Truthy(options.region)
    THEN [NoInstance EXCEPT !.err = "region is required"]
    ELSE [ok |-> TRUE, err |-> "none", kind |-> "oss", handle |-> TRUE,
          endpoint |-> options.endpoint, region |-> options.region,
          forcePathStyle |-> options.s3ForcePathStyle = "true"]

\* index.ts lines 9-21: build, the definition whose IClientOptions has
\* storageType: 'oss' | 'aws' | 's3'
build(options) ==
    CASE options.storageType = "oss" -> newOSSClient(options)
      [] options.storageType \in {"s3", "aws"} -> newAWSClient(options)
      [] OTHER -> [NoInstance EXCEPT !.err = "invalid options!"]

\* index.ts lines 36-47: build, the definition whose IClientOptions has
\* storageType: 'aws' | 'oss'
build2(options) ==
    CASE options.storageType = "oss" -> newOSSClient(options)
      [] options.storageType = "aws" -> newAWSClient(options)
      [] OTHER -> [NoInstance EXCEPT !.err = "invalid options!"]

BuildInit ==
    /\ cfg = [compressType |-> "undefined", compressLimit |-> 0]
    /\ store = [k \in Keys |-> NoObject]
    /\ written = [k \in Keys |-> NoWrite]
    /\ call = Idle
    /\ done = NoCall
    /\ facade = [op |-> "none"]
    /\ built = [op |-> "none"]
    /\ pager = [op |-> "none"]

\* a call of build as index.ts lines 9-21 define it
Build(options) ==
    /\ built' = [op |-> "build", lines |-> "9-21", options |-> options,
                 out |-> build(options)]
    /\ UNCHANGED <<cfg, store, written, call, done, facade, pager>>

\* a call of build as index.ts lines 36-47 define it
Build2(options) ==
    /\ built' = [op |-> "build", lines |-> "36-47", options |-> options,
                 out |-> build2(options)]
    /\ UNCHANGED <<cfg, store, written, call, done, facade, pager>>

BuildNext ==
    \/ \E options \in BuildOptions : Build(options)
    \/ \E options \in BuildOptions : Build2(options)

BuildSpec == BuildInit /\ [][BuildNext]_vars

\* C10: construction fails, producing neither a client handle nor an adapter
\* instance, when the discriminator is missing or not one of 'oss', 'aws',
\* 's3' (with the error 'invalid options'), when path-style addressing is
\* requested without an endpoint, and when standard addressing is requested
\* without a region; otherwise it succeeds.
C10_Construction ==
    built.op = "build" =>
        LET o == built.options
            recognised == o.storageType \in {"oss", "aws", "s3"}
            pathStyle == o.s3ForcePathStyle = "true"
            missingField == \/ pathStyle /\ ~Truthy(o.endpoint)
                            \/ ~pathStyle /\ ~Truthy(o.region)
            failed == ~built.out.ok /\ ~built.out.handle /\ built.out.kind = "none"
        IN  /\ ~recognised => (failed /\ built.out.err = "invalid options!")
            /\ (recognised /\ missingField) => (failed /\ built.out.err # "none")
            /\ (recognised /\ ~missingField) => (built.out.ok /\ built.out.handle)

----------------------------------------------------------------------------
(* Listing: AWSClient._listDetails and _listDetailsV2                      *)
(* Object keys of the listed bucket are the numbers 1..MaxObjects in       *)
(* their listing order; a cursor is the key it stands after, and 0 is the  *)
(* absent (undefined) cursor. No key contains the delimiter, so a listing  *)
(* has no common prefixes.                                                 *)

RECURSIVE SortedSeq(_)
SortedSeq(S) ==
    IF S = {} THEN <<>>
    ELSE LET lo == CHOOSE x \in S : \A y \in S : x <= y
         IN  <<lo>> \o SortedSeq(S \ {lo})

\* IListObjectOptions / IListObjectV2Options: delimiter, marker or
\* continuationToken ("cursor"), maxKeys (0: not given)
ListOptions(delimiter, cursor, maxKeys) ==
    [delimiter |-> delimiter, cursor |-> cursor, maxKeys |-> maxKeys]

\* lines 330-347 and 372-389: the command input; a falsy option is left out
listParams(key, options) ==
    [Bucket |-> getBucketName(key),
     Delimiter |-> IF Truthy(options.delimiter) THEN options.delimiter ELSE "undefined",
     Cursor |-> IF options.cursor # 0 THEN options.cursor ELSE 0,
     MaxKeys |-> IF options.maxKeys # 0 THEN options.maxKeys ELSE 0]

\* the page of keys after the cursor that one listing request returns
PageOf(bucket, params) ==
    LET rest == SortedSeq({k \in bucket : k > params.Cursor})
        size == IF params.MaxKeys = 0 THEN 1000 ELSE params.MaxKeys
    IN  [keys |-> SubSeq(rest, 1, IF Len(rest) < size THEN Len(rest) ELSE size),
         truncated |-> Len(rest) > size]

\* ListObjects (version 1): NextMarker is returned only for a truncated listing
\* requested with a delimiter (S3 API reference, ListObjects, NextMarker)
S3ListObjects(bucket, params) ==
    LET pg == PageOf(bucket, params) IN
    [IsTruncated |-> pg.truncated,
     Contents |-> pg.keys,
     NextMarker |-> IF pg.truncated /\ params.Delimiter # "undefined"
                    THEN pg.keys[Len(pg.keys)] ELSE 0]

\* ListObjectsV2: NextContinuationToken is returned for every truncated listing
S3ListObjectsV2(bucket, params) ==
    LET pg == PageOf(bucket, params) IN
    [IsTruncated |-> pg.truncated,
     Contents |-> pg.keys,
     NextContinuationToken |-> IF pg.truncated THEN pg.keys[Len(pg.keys)] ELSE 0]

\* lines 348-364: the Listing Page of _listDetails
_listDetails(data) ==
    [isTruncated |-> data.IsTruncated,
     objects |-> [i \in DOMAIN data.Contents |-> [key |-> data.Contents[i]]],
     prefixes |-> <<>>,
     next |-> data.NextMarker]

\* lines 391-409: the Listing Page of _listDetailsV2
_listDetailsV2(data) ==
    [isTruncated |-> data.IsTruncated,
     objects |-> [i \in DOMAIN data.Contents |-> [key |-> data.Contents[i]]],
     prefixes |-> <<>>,
     next |-> data.NextContinuationToken]

NoPage == [isTruncated |-> TRUE, objects |-> <<>>, prefixes |-> <<>>, next |-> 0]

PageInit ==
    /\ cfg = [compressType |-> "undefined", compressLimit |-> 0]
    /\ store = [k \in Keys |-> NoObject]
    /\ written = [k \in Keys |-> NoWrite]
    /\ call = Idle
    /\ done = NoCall
    /\ facade = [op |-> "none"]
    /\ built = [op |-> "none"]
    /\ pager \in [op : {"listDetails", "listDetailsV2"}, bucket : SUBSET (1..MaxObjects),
                  delimiter : {"undefined", "/"}, maxKeys : {0, 1, 2},
                  pc : {"call"}, cursor : {0}, page : {NoPage}]

\* the caller calls listDetails / listDetailsV2 with its cursor and receives
\* a page
PageCall ==
    /\ pager.pc = "call"
    /\ LET params == listParams("k1", ListOptions(pager.delimiter, pager.cursor,
                                                  pager.maxKeys))
       IN  pager' = [pager EXCEPT
                        !.pc = "got",
                        !.page = IF pager.op = "listDetails"
                                 THEN _listDetails(S3ListObjects(pager.bucket, params))
                                 ELSE _listDetailsV2(S3ListObjectsV2(pager.bucket, params))]
    /\ UNCHANGED <<cfg, store, written, call, done, facade, built>>

\* the caller stops at a page that is not truncated and otherwise takes the
\* page's cursor for its next call
PageAdvance ==
    /\ pager.pc = "got"
    /\ pager' = IF pager.page.isTruncated
                THEN [pager EXCEPT !.pc = "call", !.cursor = pager.page.next]
                ELSE [pager EXCEPT !.pc = "stop"]
    /\ UNCHANGED <<cfg, store, written, call, done, facade, built>>

PageNext == PageCall \/ PageAdvance

\* the caller of the claim calls again and again: every step it can take is
\* eventually taken
PageSpec == PageInit /\ [][PageNext]_vars /\ WF_vars(PageCall) /\ WF_vars(PageAdvance)

\* C8: a caller paging through listDetails or listDetailsV2 over a finite,
\* unchanging bucket eventually receives a page that is not truncated, and
\* every page that is not truncated has an absent cursor.
C8_PaginationTerminates ==
    /\ <>(pager.pc = "stop")
    /\ [](pager.pc \in {"got", "stop"} /\ ~pager.page.isTruncated => pager.page.next = 0)

====
